---------------------------- MODULE Spec2Model ----------------------------
(*************************************************************************)
(* A model of examples/foo.h: the classes Foo, Zbr and SomeObject.       *)
(*                                                                       *)
(* Heap objects are named by small integers (their addresses); NULL is   *)
(* the null pointer.  One SomeObject is modelled, together with the      *)
(* single-threaded caller that constructs Foo and Zbr instances on the   *)
(* heap and calls the SomeObject methods.  Each method is translated     *)
(* statement by statement; a method of several statements is a chain of  *)
(* steps linked by pc, and no other call can start before pc is back at  *)
(* "idle" (the code is synchronous and not reentrant).                   *)
(*                                                                       *)
(* Undefined behaviour is a nondeterministic choice:                     *)
(*   - Zbr's constructors never initialise m_refcount, so a new Zbr      *)
(*     starts with any count of InitCounts;                              *)
(*   - deleting an instance twice either aborts the process or goes on;  *)
(*   - Ref/Unref on a deleted Zbr read released memory: the read yields  *)
(*     any value, so Unref may or may not delete the instance again;     *)
(*   - set_zbr_shared(NULL) dereferences the null pointer and aborts.    *)
(* Addresses are not reused after a delete.                              *)
(*************************************************************************)
EXTENDS Integers, FiniteSets, Sequences

(* ------------------------------ bounds ------------------------------ *)
\* The Foo and the Zbr instances that can be constructed.
NFoo == 3
NZbr == 2
\* Ref and Unref are taken only while a count stays within -MaxCount..MaxCount.
MaxCount == 3
\* The references to one Zbr the caller owns at a time.
MaxRefs == 2
\* The indeterminate count of a new Zbr is one of 0..MaxInit.
MaxInit == 2
\* The get_zbr calls of the scenario: 0..MaxN.
MaxN == 2
\* The caller's Foo variables (Foo objects held by value).
NLocal == 2
\* add_prefix is called only while its result has at most MaxSize characters.
MaxSize == 11

NULL == 0
FooIds == 1..NFoo
ZbrIds == 1..NZbr

\* Zbr::m_refcount is read uninitialised: the values a new Zbr may start with.
InitCounts == 0..MaxInit

\* A std::string is the sequence of its characters.
EmptyString == <<>>
Str_foo_ == <<"f", "o", "o", "_">>
Str_bar == <<"b", "a", "r">>
\* The prefixes a SomeObject is constructed with, the strings the caller
\* puts in its message variable, and the data it constructs Foo values with.
Prefixes == {EmptyString, Str_foo_, <<"x">>}
Messages == {EmptyString, Str_bar, <<"x", "y">>}
Datums == {EmptyString, <<"a">>, <<"b">>}
Locals == 1..NLocal

VARIABLES
    fooAlloc,      \* the Foo instances constructed on the heap so far
    fooFrees,      \* fooFrees[f]: how many times f has been deleted (2: more than once)
    m_foo_ptr,     \* SomeObject::m_foo_ptr
    m_foo_shared_ptr, \* SomeObject::m_foo_shared_ptr
    callerFoo,     \* the Foo instances the caller owns (is to delete)
    misuse,        \* the caller has passed or deleted a Foo it does not own
    zbrAlloc,      \* the Zbr instances constructed so far
    zbrFrees,      \* zbrFrees[z]: how many times z has been deleted (2: more than once)
    m_refcount,    \* m_refcount[z]: Zbr::m_refcount of z
    m_zbr,         \* SomeObject::m_zbr
    callerRefs,    \* callerRefs[z]: the references to z the caller owns
    m_prefix,      \* SomeObject::m_prefix
    m_foo_value,   \* SomeObject::m_foo_value
    local,         \* local[i]: the caller's Foo variable i (a Foo by value)
    message,       \* the caller's std::string variable
    pc,            \* the statement the running method is at, or "idle"
    cur,           \* the running call: its argument and the state at its entry
    last,          \* the last completed call, with its return value
    drv            \* the position of the get/release scenario driver

vars == <<fooAlloc, fooFrees, m_foo_ptr, m_foo_shared_ptr, callerFoo, misuse,
          zbrAlloc, zbrFrees, m_refcount, m_zbr, callerRefs,
          m_prefix, m_foo_value, local, message,
          pc, cur, last, drv>>

fooVars == <<fooAlloc, fooFrees, m_foo_ptr, m_foo_shared_ptr, callerFoo, misuse>>
zbrVars == <<zbrAlloc, zbrFrees, m_refcount, m_zbr, callerRefs>>
valVars == <<m_prefix, m_foo_value, local, message>>

FooLive(f) == f \in fooAlloc /\ fooFrees[f] = 0
ZbrLive(z) == z \in zbrAlloc /\ zbrFrees[z] = 0
LiveFoos == {f \in FooIds : FooLive(f)}
LiveZbrs == {z \in ZbrIds : ZbrLive(z)}

NoCall == [op |-> "none", arg |-> NULL, held |-> NULL, live |-> {}, ret |-> NULL]
Call(op, arg, held, live) ==
    [op |-> op, arg |-> arg, held |-> held, live |-> live, ret |-> NULL]
Returned(c, r) == [c EXCEPT !.ret = r]

\* The scenario driver before it starts: n get_zbr calls are to follow the
\* store of Zbr z, made when z's count was c0; gets and rels count the
\* get_zbr calls and the releases made so far.
DrvOff == [phase |-> "off", n |-> 0, gets |-> 0, rels |-> 0, z |-> NULL, c0 |-> 0]

(* --------------------------- Foo by value --------------------------- *)

\* Foo::Foo () (lines 16-17).
Foo == [m_datum |-> EmptyString]

\* Foo::Foo (std::string datum) (lines 18-19).
FooOf(datum) == [m_datum |-> datum]

\* Foo::get_datum (line 20).
get_datum(foo) == foo.m_datum

\* Mutant: the copy constructor leaves the datum empty.
FooCopyEmpty(other) == [m_datum |-> EmptyString]

\* Foo::Foo (Foo const & other) (lines 22-23).
FooCopy(other) == [m_datum |-> get_datum(other)]

\* The implicit Foo::operator= : memberwise assignment of m_datum.  The
\* result is the new value of the object assigned to.
FooAssign(other) == [m_datum |-> other.m_datum]

\* SomeObject's constructor (lines 61-64): the prefix is stored, every
\* pointer member is null and m_foo_value is a default Foo.  No Foo or Zbr
\* exists on the heap yet; the caller's Foo variables are default Foos and
\* its message variable is empty.
Construct(prefix) ==
    /\ m_prefix = prefix
    /\ m_foo_value = Foo
    /\ m_foo_shared_ptr = NULL
    /\ local = [i \in Locals |-> Foo]
    /\ message = EmptyString
    /\ fooAlloc = {}
    /\ fooFrees = [f \in FooIds |-> 0]
    /\ m_foo_ptr = NULL
    /\ callerFoo = {}
    /\ misuse = FALSE
    /\ zbrAlloc = {}
    /\ zbrFrees = [z \in ZbrIds |-> 0]
    /\ m_refcount = [z \in ZbrIds |-> 0]
    /\ m_zbr = NULL
    /\ callerRefs = [z \in ZbrIds |-> 0]
    /\ pc = "idle"
    /\ cur = NoCall
    /\ last = NoCall
    /\ drv = DrvOff

\* The state after construction, with any prefix.
Init == \E prefix \in Prefixes : Construct(prefix)

(* ------------------------------- Foo -------------------------------- *)

\* One more delete of an instance deleted n times so far; deletes past the
\* second are not told apart.
OnceMore(n) == IF n = 0 THEN 1 ELSE 2

\* `delete p` on a Foo, then on to statement `next`.  A second delete of
\* the same instance is undefined: the process aborts or goes on.
DeleteFoo(p, next) ==
    \/ /\ fooFrees' = [fooFrees EXCEPT ![p] = OnceMore(@)]
       /\ pc' = next
    \/ /\ fooFrees[p] > 0
       /\ fooFrees' = fooFrees
       /\ pc' = "aborted"

\* The caller constructs a Foo on the heap (new Foo (...)) and owns it.
NewFoo ==
    /\ pc = "idle"
    /\ \E f \in FooIds \ fooAlloc :
          /\ \A g \in FooIds \ fooAlloc : f <= g
          /\ fooAlloc' = fooAlloc \cup {f}
          /\ callerFoo' = callerFoo \cup {f}
          /\ last' = Returned(Call("new_foo", NULL, m_foo_ptr, LiveFoos), f)
    /\ UNCHANGED <<fooFrees, m_foo_ptr, misuse, m_foo_shared_ptr, zbrVars, valVars,
                   pc, cur>>

\* The caller deletes a Foo it holds a pointer to.  It is its right only
\* for an instance it owns.
CallerDeleteFoo(f) ==
    /\ pc = "idle"
    /\ f \in fooAlloc
    /\ misuse' = (misuse \/ f \notin callerFoo)
    /\ callerFoo' = callerFoo \ {f}
    /\ DeleteFoo(f, "idle")
    /\ last' = Call("delete_foo", f, m_foo_ptr, LiveFoos)
    /\ UNCHANGED <<fooAlloc, m_foo_ptr, m_foo_shared_ptr, zbrVars, valVars, cur>>

\* Mutant: set_foo_ptr never deletes the instance it holds.
set_foo_ptr_guard_never == FALSE

\* Mutant: set_foo_ptr keeps the instance held if it is the argument.
set_foo_ptr_guard_compares == m_foo_ptr # NULL /\ m_foo_ptr # cur'.arg

\* The test of set_foo_ptr: if (m_foo_ptr) (line 88).
set_foo_ptr_guard == m_foo_ptr # NULL

\* Mutant: get_foo_ptr returns the member after clearing it.
get_foo_ptr_result_cleared == NULL

\* Mutant: get_foo_ptr returns the borrowed pointer.
get_foo_ptr_result_shared == m_foo_shared_ptr

\* What get_foo_ptr returns: Foo *foo = m_foo_ptr (line 110), return foo (112).
get_foo_ptr_result == m_foo_ptr

\* Mutant: get_foo_ptr leaves the member as it is.
get_foo_ptr_slot_kept == m_foo_ptr

\* The value get_foo_ptr leaves in m_foo_ptr (line 111).
get_foo_ptr_slot == NULL

\* set_foo_ptr, lines 87-89: the call, and the delete of the instance held.
\* The caller gives up the instance it passes.
set_foo_ptr_delete(foo) ==
    /\ pc = "idle"
    /\ foo \in fooAlloc \cup {NULL}
    /\ misuse' = (misuse \/ (foo # NULL /\ foo \notin callerFoo))
    /\ callerFoo' = callerFoo \ {foo}
    /\ cur' = Call("set_foo_ptr", foo, m_foo_ptr, LiveFoos)
    /\ IF set_foo_ptr_guard
          THEN DeleteFoo(m_foo_ptr, "set_foo_ptr_store")
          ELSE fooFrees' = fooFrees /\ pc' = "set_foo_ptr_store"
    /\ UNCHANGED <<fooAlloc, m_foo_ptr, m_foo_shared_ptr, zbrVars, valVars, last>>

\* set_foo_ptr, line 90: m_foo_ptr = foo, and the return.
set_foo_ptr_store ==
    /\ pc = "set_foo_ptr_store"
    /\ m_foo_ptr' = cur.arg
    /\ pc' = "idle"
    /\ last' = cur
    /\ cur' = NoCall
    /\ UNCHANGED <<fooAlloc, fooFrees, callerFoo, misuse, m_foo_shared_ptr, zbrVars,
                   valVars>>

\* get_foo_ptr, lines 109-113: the caller owns what is returned.
get_foo_ptr ==
    /\ pc = "idle"
    /\ m_foo_ptr' = get_foo_ptr_slot
    /\ callerFoo' = callerFoo \cup ({get_foo_ptr_result} \ {NULL})
    /\ last' = Returned(Call("get_foo_ptr", NULL, m_foo_ptr, LiveFoos),
                        get_foo_ptr_result)
    /\ UNCHANGED <<fooAlloc, fooFrees, misuse, m_foo_shared_ptr, zbrVars, valVars,
                   pc, cur>>

\* set_foo_shared_ptr, lines 94-96: the pointer is stored; the instance
\* stays with whoever owns it.
set_foo_shared_ptr(foo) ==
    /\ pc = "idle"
    /\ foo \in fooAlloc \cup {NULL}
    /\ m_foo_shared_ptr' = foo
    /\ last' = Call("set_foo_shared_ptr", foo, m_foo_ptr, LiveFoos)
    /\ UNCHANGED <<fooAlloc, fooFrees, m_foo_ptr, callerFoo, misuse, zbrVars, valVars,
                   pc, cur>>

\* Mutant: get_foo_shared_ptr returns the owned pointer.
get_foo_shared_ptr_result_owned == m_foo_ptr

\* What get_foo_shared_ptr returns (line 105).
get_foo_shared_ptr_result == m_foo_shared_ptr

\* get_foo_shared_ptr, lines 104-106: the caller does not own what is
\* returned.
get_foo_shared_ptr ==
    /\ pc = "idle"
    /\ last' = Returned(Call("get_foo_shared_ptr", NULL, m_foo_ptr, LiveFoos),
                        get_foo_shared_ptr_result)
    /\ UNCHANGED <<fooVars, zbrVars, valVars, pc, cur>>

(* ------------------------------- Zbr -------------------------------- *)

\* Mutant: Ref leaves the count as it is.
RefCountSame(c) == c

\* ++m_refcount (line 47).
RefCount(c) == c + 1

\* Mutant: Unref leaves the count as it is.
UnrefCountSame(c) == c

\* --m_refcount (line 48).
UnrefCount(c) == c - 1

\* Mutant: Unref deletes one release early, when one reference is left.
UnrefDeletesEarly(c) == c = 1

\* Mutant: Unref deletes at any count that is not positive.
UnrefDeletesBelow(c) == c <= 0

\* The test of Unref, on the decremented count: !--m_refcount (line 48).
UnrefDeletes(c) == c = 0

\* Zbr::Ref on z.  On a deleted z the increment goes to released memory and
\* leaves nothing the program can rely on.
Ref(z) ==
    m_refcount' = IF ZbrLive(z)
                     THEN [m_refcount EXCEPT ![z] = RefCount(@)]
                     ELSE m_refcount

\* Zbr::Unref on z, then on to statement `next`.  On a live z: decrement,
\* and delete this when the count is now zero.  On a deleted z the count
\* read is arbitrary: nothing more happens, or the count "reaches zero" and
\* z is deleted a second time (the process aborts or goes on).
Unref(z, next) ==
    IF ZbrLive(z)
       THEN /\ m_refcount' = [m_refcount EXCEPT ![z] = UnrefCount(@)]
            /\ zbrFrees' = IF UnrefDeletes(UnrefCount(m_refcount[z]))
                              THEN [zbrFrees EXCEPT ![z] = OnceMore(@)]
                              ELSE zbrFrees
            /\ pc' = next
       ELSE /\ m_refcount' = m_refcount
            /\ \/ zbrFrees' = zbrFrees /\ pc' = next
               \/ /\ zbrFrees' = [zbrFrees EXCEPT ![z] = OnceMore(@)]
                  /\ pc' = next
               \/ zbrFrees' = zbrFrees /\ pc' = "aborted"

\* The bounds of the model on a count: Ref and Unref stay within them.
CanRef(z) == ZbrLive(z) => m_refcount[z] < MaxCount
CanUnref(z) == ZbrLive(z) => m_refcount[z] > 0 - MaxCount

\* The pointers a caller that follows the ownership rules may use: one it
\* owns a reference to, or the one the container holds (from peek_zbr).
Usable(z) == z \in zbrAlloc /\ (callerRefs[z] > 0 \/ m_zbr = z)

\* The caller constructs a Zbr (lines 38-41) and holds the first reference
\* to it.  No constructor sets m_refcount.
NewZbr ==
    /\ pc = "idle"
    /\ \E z \in ZbrIds \ zbrAlloc :
          /\ \A y \in ZbrIds \ zbrAlloc : z <= y
          /\ zbrAlloc' = zbrAlloc \cup {z}
          /\ callerRefs' = [callerRefs EXCEPT ![z] = 1]
          /\ \E c \in InitCounts : m_refcount' = [m_refcount EXCEPT ![z] = c]
          /\ last' = Call("new_zbr", NULL, NULL, {})
    /\ UNCHANGED <<fooVars, valVars, zbrFrees, m_zbr, pc, cur>>

\* The caller takes one more reference to z: z->Ref ().
CallerRef(z) ==
    /\ pc = "idle"
    /\ Usable(z) /\ CanRef(z)
    /\ callerRefs[z] < MaxRefs
    /\ callerRefs' = [callerRefs EXCEPT ![z] = @ + 1]
    /\ Ref(z)
    /\ last' = Call("Ref", NULL, NULL, {})
    /\ UNCHANGED <<fooVars, valVars, zbrAlloc, zbrFrees, m_zbr, pc, cur>>

\* The caller releases one of the references to z it owns: z->Unref ().
CallerUnref(z) ==
    /\ pc = "idle"
    /\ z \in zbrAlloc /\ callerRefs[z] > 0 /\ CanUnref(z)
    /\ callerRefs' = [callerRefs EXCEPT ![z] = @ - 1]
    /\ Unref(z, "idle")
    /\ last' = Call("Unref", NULL, NULL, {})
    /\ UNCHANGED <<fooVars, valVars, zbrAlloc, m_zbr, cur>>

\* get_zbr, lines 116-123: the caller owns the reference returned.
get_zbr ==
    /\ pc = "idle"
    /\ IF m_zbr # NULL
          THEN /\ CanRef(m_zbr)
               /\ callerRefs[m_zbr] < MaxRefs
               /\ Ref(m_zbr)
               /\ callerRefs' = [callerRefs EXCEPT ![m_zbr] = @ + 1]
          ELSE UNCHANGED <<m_refcount, callerRefs>>
    /\ last' = Returned(Call("get_zbr", NULL, NULL, {}), m_zbr)
    /\ UNCHANGED <<fooVars, valVars, zbrAlloc, zbrFrees, m_zbr, pc, cur>>

\* Mutant: peek_zbr takes the Zbr out of the slot.
peek_zbr_clearing ==
    /\ pc = "idle"
    /\ m_zbr' = NULL
    /\ last' = Returned(Call("peek_zbr", NULL, NULL, {}), m_zbr)
    /\ UNCHANGED <<fooVars, valVars, zbrAlloc, zbrFrees, m_refcount, callerRefs, pc, cur>>

\* peek_zbr, line 126.
peek_zbr ==
    /\ pc = "idle"
    /\ last' = Returned(Call("peek_zbr", NULL, NULL, {}), m_zbr)
    /\ UNCHANGED <<fooVars, valVars, zbrVars, pc, cur>>

\* set_zbr_transfer, lines 129-131: the call, and the Unref of the Zbr held.
\* The caller gives up the reference it passes.
set_zbr_transfer_unref(zbr) ==
    /\ pc = "idle"
    /\ zbr = NULL \/ (zbr \in zbrAlloc /\ callerRefs[zbr] > 0)
    /\ callerRefs' = IF zbr = NULL THEN callerRefs
                                   ELSE [callerRefs EXCEPT ![zbr] = @ - 1]
    /\ cur' = Call("set_zbr_transfer", zbr, NULL, {})
    /\ IF m_zbr # NULL
          THEN CanUnref(m_zbr) /\ Unref(m_zbr, "set_zbr_transfer_store")
          ELSE UNCHANGED <<m_refcount, zbrFrees>> /\ pc' = "set_zbr_transfer_store"
    /\ UNCHANGED <<fooVars, valVars, zbrAlloc, m_zbr, last>>

\* Mutant: set_zbr_transfer keeps the Zbr held when its argument is null.
set_zbr_transfer_slot_kept == IF cur.arg = NULL THEN m_zbr ELSE cur.arg

\* The value set_zbr_transfer leaves in m_zbr: m_zbr = zbr (line 132).
set_zbr_transfer_slot == cur.arg

\* set_zbr_transfer, line 132: m_zbr = zbr, and the return.
set_zbr_transfer_store ==
    /\ pc = "set_zbr_transfer_store"
    /\ m_zbr' = set_zbr_transfer_slot
    /\ pc' = "idle"
    /\ last' = cur
    /\ cur' = NoCall
    /\ UNCHANGED <<fooVars, valVars, zbrAlloc, zbrFrees, m_refcount, callerRefs>>

\* set_zbr_shared, lines 136-138: the call, and the Unref of the Zbr held.
set_zbr_shared_unref(zbr) ==
    /\ pc = "idle"
    /\ zbr = NULL \/ (Usable(zbr) /\ CanRef(zbr))
    /\ cur' = Call("set_zbr_shared", zbr, NULL, LiveZbrs \cap {zbr})
    /\ IF m_zbr # NULL
          THEN CanUnref(m_zbr) /\ Unref(m_zbr, "set_zbr_shared_ref")
          ELSE UNCHANGED <<m_refcount, zbrFrees>> /\ pc' = "set_zbr_shared_ref"
    /\ UNCHANGED <<fooVars, valVars, zbrAlloc, m_zbr, callerRefs, last>>

\* set_zbr_shared, line 139: zbr->Ref ().  A null zbr is dereferenced.
set_zbr_shared_ref ==
    /\ pc = "set_zbr_shared_ref"
    /\ IF cur.arg = NULL
          THEN pc' = "aborted" /\ UNCHANGED m_refcount
          ELSE pc' = "set_zbr_shared_store" /\ Ref(cur.arg)
    /\ UNCHANGED <<fooVars, valVars, zbrAlloc, zbrFrees, m_zbr, callerRefs, cur,
                   last>>

\* set_zbr_shared, line 140: m_zbr = zbr, and the return.
set_zbr_shared_store ==
    /\ pc = "set_zbr_shared_store"
    /\ m_zbr' = cur.arg
    /\ pc' = "idle"
    /\ last' = cur
    /\ cur' = NoCall
    /\ UNCHANGED <<fooVars, valVars, zbrAlloc, zbrFrees, m_refcount, callerRefs>>

(* ---------------------- value slot and prefix ---------------------- *)

\* The caller assigns Foo (datum) to its Foo variable i.
CallerSetLocal(i, datum) ==
    /\ pc = "idle"
    /\ local' = [local EXCEPT ![i] = FooAssign(FooOf(datum))]
    /\ last' = Call("set_local", i, NULL, {})
    /\ UNCHANGED <<m_prefix, m_foo_value, message, fooVars, zbrVars, pc, cur>>

\* set_foo_value, lines 72-74, called with the caller's variable i: the
\* parameter foo is a copy of the argument.
set_foo_value(i) ==
    /\ pc = "idle"
    /\ LET foo == FooCopy(local[i]) IN m_foo_value' = FooAssign(foo)
    /\ last' = Call("set_foo_value", i, NULL, {})
    /\ UNCHANGED <<m_prefix, local, message, fooVars, zbrVars, pc, cur>>

\* set_foo_by_ref, lines 77-79: the parameter foo is the caller's variable i.
set_foo_by_ref(i) ==
    /\ pc = "idle"
    /\ m_foo_value' = FooAssign(local[i])
    /\ last' = Call("set_foo_by_ref", i, NULL, {})
    /\ UNCHANGED <<m_prefix, local, message, fooVars, zbrVars, pc, cur>>

\* get_foo_by_ref, lines 82-84: the caller's variable i is assigned to.
get_foo_by_ref(i) ==
    /\ pc = "idle"
    /\ local' = [local EXCEPT ![i] = FooAssign(m_foo_value)]
    /\ last' = Call("get_foo_by_ref", i, NULL, {})
    /\ UNCHANGED <<m_prefix, m_foo_value, message, fooVars, zbrVars, pc, cur>>

\* get_foo_value, lines 99-101: the value returned is a copy of the member;
\* the caller assigns it to its variable i.
get_foo_value(i) ==
    /\ pc = "idle"
    /\ LET result == FooCopy(m_foo_value)
       IN local' = [local EXCEPT ![i] = FooAssign(result)]
    /\ last' = Call("get_foo_value", i, NULL, {})
    /\ UNCHANGED <<m_prefix, m_foo_value, message, fooVars, zbrVars, pc, cur>>

\* The caller assigns a string to its message variable.
CallerSetMessage(m) ==
    /\ pc = "idle"
    /\ message' = m
    /\ last' = Call("set_message", NULL, NULL, {})
    /\ UNCHANGED <<m_prefix, m_foo_value, local, fooVars, zbrVars, pc, cur>>

\* Mutant: the operands of + the other way round.
StringPlusSwapped(a, b) == b \o a

\* operator+ of std::string (line 67).
StringPlus(a, b) == a \o b

\* std::string::size (line 68).
size(str) == Len(str)

\* add_prefix, lines 66-69, called with the caller's message variable.
add_prefix ==
    /\ pc = "idle"
    /\ Len(m_prefix) + Len(message) <= MaxSize
    /\ message' = StringPlus(m_prefix, message)
    /\ last' = Returned(Call("add_prefix", NULL, NULL, {}), size(message'))
    /\ UNCHANGED <<m_prefix, m_foo_value, local, fooVars, zbrVars, pc, cur>>

(* -------------------------- specifications -------------------------- *)

NextFoo ==
    \/ NewFoo /\ UNCHANGED drv
    \/ \E f \in FooIds : CallerDeleteFoo(f) /\ UNCHANGED drv
    \/ \E foo \in FooIds \cup {NULL} : set_foo_ptr_delete(foo) /\ UNCHANGED drv
    \/ set_foo_ptr_store /\ UNCHANGED drv
    \/ get_foo_ptr /\ UNCHANGED drv
    \/ \E foo \in FooIds \cup {NULL} : set_foo_shared_ptr(foo) /\ UNCHANGED drv
    \/ get_foo_shared_ptr /\ UNCHANGED drv

NextZbr ==
    \/ NewZbr /\ UNCHANGED drv
    \/ \E z \in ZbrIds : CallerRef(z) /\ UNCHANGED drv
    \/ \E z \in ZbrIds : CallerUnref(z) /\ UNCHANGED drv
    \/ get_zbr /\ UNCHANGED drv
    \/ peek_zbr /\ UNCHANGED drv
    \/ \E zbr \in ZbrIds \cup {NULL} : set_zbr_transfer_unref(zbr) /\ UNCHANGED drv
    \/ set_zbr_transfer_store /\ UNCHANGED drv
    \/ \E zbr \in ZbrIds \cup {NULL} : set_zbr_shared_unref(zbr) /\ UNCHANGED drv
    \/ set_zbr_shared_ref /\ UNCHANGED drv
    \/ set_zbr_shared_store /\ UNCHANGED drv

NextValue ==
    \/ \E i \in Locals, datum \in Datums : CallerSetLocal(i, datum) /\ UNCHANGED drv
    \/ \E i \in Locals : set_foo_value(i) /\ UNCHANGED drv
    \/ \E i \in Locals : set_foo_by_ref(i) /\ UNCHANGED drv
    \/ \E i \in Locals : get_foo_by_ref(i) /\ UNCHANGED drv
    \/ \E i \in Locals : get_foo_value(i) /\ UNCHANGED drv
    \/ \E m \in Messages : CallerSetMessage(m) /\ UNCHANGED drv
    \/ add_prefix /\ UNCHANGED drv

Next == NextFoo \/ NextZbr \/ NextValue

\* Every method of SomeObject, called by a caller that constructs one Foo
\* and one Zbr on the heap, has one Foo variable, and does nothing else.
NextSomeObject ==
    \/ fooAlloc = {} /\ NewFoo /\ UNCHANGED drv
    \/ zbrAlloc = {} /\ NewZbr /\ UNCHANGED drv
    \/ \E datum \in Datums : CallerSetLocal(1, datum) /\ UNCHANGED drv
    \/ add_prefix /\ UNCHANGED drv
    \/ set_foo_value(1) /\ UNCHANGED drv
    \/ set_foo_by_ref(1) /\ UNCHANGED drv
    \/ get_foo_by_ref(1) /\ UNCHANGED drv
    \/ \E foo \in FooIds \cup {NULL} : set_foo_ptr_delete(foo) /\ UNCHANGED drv
    \/ set_foo_ptr_store /\ UNCHANGED drv
    \/ \E foo \in FooIds \cup {NULL} : set_foo_shared_ptr(foo) /\ UNCHANGED drv
    \/ get_foo_value(1) /\ UNCHANGED drv
    \/ get_foo_shared_ptr /\ UNCHANGED drv
    \/ get_foo_ptr /\ UNCHANGED drv
    \/ get_zbr /\ UNCHANGED drv
    \/ peek_zbr /\ UNCHANGED drv
    \/ \E zbr \in ZbrIds \cup {NULL} : set_zbr_transfer_unref(zbr) /\ UNCHANGED drv
    \/ set_zbr_transfer_store /\ UNCHANGED drv
    \/ \E zbr \in ZbrIds \cup {NULL} : set_zbr_shared_unref(zbr) /\ UNCHANGED drv
    \/ set_zbr_shared_ref /\ UNCHANGED drv
    \/ set_zbr_shared_store /\ UNCHANGED drv

\* The scenario "store z, call get_zbr n times, release n + 1 times", run
\* with the operations above: the caller constructs z and transfers it to
\* the container, acquires n references with get_zbr, and then the n + 1
\* references are released in any order, the caller's by Unref and the
\* container's by set_zbr_transfer(NULL).  The container's reference is
\* stored by set_zbr_transfer, or by set_zbr_shared after which the caller
\* drops its own reference.
DrvNew(n) ==
    /\ drv.phase = "off"
    /\ NewZbr
    /\ drv' = [drv EXCEPT !.phase = "store", !.n = n, !.z = 1]

DrvStore ==
    /\ drv.phase = "store"
    /\ set_zbr_transfer_unref(drv.z)
    /\ drv' = [drv EXCEPT !.phase = "gets", !.c0 = m_refcount[drv.z]]

DrvStoreShared ==
    /\ drv.phase = "store"
    /\ set_zbr_shared_unref(drv.z)
    /\ drv' = [drv EXCEPT !.phase = "drop"]

DrvDrop ==
    /\ drv.phase = "drop"
    /\ CallerUnref(drv.z)
    /\ drv' = [drv EXCEPT !.phase = "gets", !.c0 = m_refcount'[drv.z]]

DrvGet ==
    /\ drv.phase = "gets" /\ drv.gets < drv.n
    /\ get_zbr
    /\ drv' = [drv EXCEPT !.gets = @ + 1]

DrvCallerRelease ==
    /\ drv.phase \in {"gets", "rels"} /\ drv.gets = drv.n
    /\ CallerUnref(drv.z)
    /\ drv' = [drv EXCEPT !.phase = "rels", !.rels = @ + 1]

DrvContainerRelease ==
    /\ drv.phase \in {"gets", "rels"} /\ drv.gets = drv.n
    /\ m_zbr = drv.z
    /\ set_zbr_transfer_unref(NULL)
    /\ drv' = [drv EXCEPT !.phase = "rels", !.rels = @ + 1]

NextScenario ==
    \/ \E n \in 0..MaxN : DrvNew(n)
    \/ DrvStore
    \/ DrvGet
    \/ DrvCallerRelease
    \/ DrvContainerRelease
    \/ set_zbr_transfer_store /\ UNCHANGED drv
    \/ DrvStoreShared
    \/ set_zbr_shared_ref /\ UNCHANGED drv
    \/ set_zbr_shared_store /\ UNCHANGED drv
    \/ DrvDrop

\* The Foo operations of SomeObject and of its caller.
SpecFoo == Construct(Str_foo_) /\ [][NextFoo]_vars

\* The Zbr operations of SomeObject and of its caller.
SpecZbr == Construct(Str_foo_) /\ [][NextZbr]_vars

\* The value slot and the prefix, for a SomeObject of any prefix.
SpecValue == Init /\ [][NextValue]_vars

\* Every method of SomeObject, on one Foo and one Zbr.
SpecSomeObject == Construct(Str_foo_) /\ [][NextSomeObject]_vars

\* The get/release scenario on one Zbr.
SpecScenario == Construct(Str_foo_) /\ [][NextScenario]_vars

\* Every operation.
Spec == Init /\ [][Next]_vars

(* ------------------------- claims: Foo slot ------------------------- *)

\* The step that ends a set_foo_ptr call (line 90).
StoreStep == pc = "set_foo_ptr_store" /\ pc' = "idle"

\* The step is the store of set_foo_ptr(b), the call before it was
\* set_foo_ptr(a), a # b, and a and b were live when that first call began.
SetThenSet(a, b) ==
    /\ StoreStep
    /\ last.op = "set_foo_ptr" /\ last.arg = a /\ cur.arg = b
    /\ a # b /\ a \in last.live /\ b \in last.live

\* What C1 promises of that step: a is already deleted, once, while the slot
\* still holds a; the step stores b; b is not deleted.
FirstFreedOnce(a, b) ==
    /\ fooFrees[a] = 1 /\ m_foo_ptr = a
    /\ fooFrees'[a] = 1 /\ fooFrees'[b] = 0 /\ m_foo_ptr' = b

\* C1 as stated: for every pair of distinct live Foo a and b, after
\* set_foo_ptr(a) followed by set_foo_ptr(b), a has been freed exactly once,
\* before b becomes the value of the owned slot, b is not freed and the slot
\* holds b.  It fails when the slot already held a or b before the first call.
C1_AsClaimed ==
    [][\A a \in FooIds : \A b \in FooIds :
          SetThenSet(a, b) => FirstFreedOnce(a, b)]_vars

\* C1, amended: the same, for distinct live a and b neither of which the
\* owned slot held when set_foo_ptr(a) was called.
C1_SetTwiceFreesFirstOnce ==
    [][\A a \in FooIds : \A b \in FooIds :
          (SetThenSet(a, b) /\ last.held \notin {a, b}) => FirstFreedOnce(a, b)]_vars

\* set_foo_ptr(b) has returned; it found a live a # b in the slot, deleted
\* it once and stored the live b.
C1_Witness ==
    /\ pc = "idle" /\ ~misuse
    /\ last.op = "set_foo_ptr"
    /\ last.held # NULL /\ last.arg \notin {NULL, last.held}
    /\ last.held \in last.live /\ last.arg \in last.live
    /\ fooFrees[last.held] = 1 /\ fooFrees[last.arg] = 0
    /\ m_foo_ptr = last.arg

\* The step is a whole get_foo_ptr call.
GetFooPtrStep == pc = "idle" /\ pc' = "idle" /\ last'.op = "get_foo_ptr"

\* The step is the first one of a set_foo_ptr call (lines 87-89).
SetFooPtrCallStep == pc = "idle" /\ cur'.op = "set_foo_ptr"

\* C2: get_foo_ptr frees nothing and leaves the owned slot absent; called
\* right after set_foo_ptr(x) it returns x; called right after a
\* get_foo_ptr it returns absent; and a set_foo_ptr called while the slot
\* is absent frees nothing.
C2_TakeMovesOwnership ==
    [][/\ GetFooPtrStep =>
             /\ fooFrees' = fooFrees
             /\ m_foo_ptr' = NULL
             /\ last'.ret = m_foo_ptr
             /\ (last.op = "set_foo_ptr" => last'.ret = last.arg)
             /\ (last.op = "get_foo_ptr" => last'.ret = NULL)
       /\ (SetFooPtrCallStep /\ (m_foo_ptr = NULL \/ last.op = "get_foo_ptr")) =>
             (fooFrees' = fooFrees /\ pc' = "set_foo_ptr_store")]_vars

\* get_foo_ptr has returned a live Foo right after a set_foo_ptr stored it:
\* the slot is absent and the caller owns the Foo.
C2_Witness ==
    /\ pc = "idle" /\ ~misuse
    /\ last.op = "get_foo_ptr" /\ last.ret # NULL /\ last.held = last.ret
    /\ FooLive(last.ret) /\ last.ret \in callerFoo
    /\ m_foo_ptr = NULL

\* C5: while the caller has passed to set_foo_ptr and deleted only instances
\* it owned, between calls every live Foo has exactly one owner (the
\* container's owned slot or the caller), a deleted Foo has none, no Foo
\* has been deleted more than once, and the owned slot refers to no deleted
\* instance.
C5_SingleOwner ==
    (~misuse /\ pc # "set_foo_ptr_store") =>
        /\ pc = "idle"
        /\ \A f \in fooAlloc :
              /\ fooFrees[f] <= 1
              /\ FooLive(f) => ((f \in callerFoo) # (m_foo_ptr = f))
              /\ ~FooLive(f) => (f \notin callerFoo /\ m_foo_ptr # f)

\* The container owns one live Foo, the caller another, and a third has been
\* deleted, with no misuse.
C5_Witness ==
    /\ pc = "idle" /\ ~misuse
    /\ m_foo_ptr # NULL /\ FooLive(m_foo_ptr)
    /\ \E f \in callerFoo : FooLive(f)
    /\ \E f \in fooAlloc : fooFrees[f] = 1

(* ------------------------- claims: Zbr slot ------------------------- *)

\* C3: in the scenario, when the count of z was 1 with the container's
\* stored reference as the only one (drv.c0 = 1): after g get_zbr calls the
\* count is 1 + g; after n get_zbr calls and r <= n releases z is live with
\* count 1 + n - r; the release number n + 1 brings the count to zero and
\* deletes z; and z is never deleted more than once.
C3_GetsThenReleases ==
    (drv.phase \in {"gets", "rels"} /\ drv.c0 = 1) =>
        /\ zbrFrees[drv.z] <= 1
        /\ drv.rels <= drv.n =>
              (ZbrLive(drv.z) /\ m_refcount[drv.z] = 1 + drv.gets - drv.rels)
        /\ drv.rels = drv.n + 1 =>
              (zbrFrees[drv.z] = 1 /\ m_refcount[drv.z] = 0)

\* The scenario has run to its end with the largest n: the count was 1 at
\* the store, n get_zbr calls and n + 1 releases were made, z is deleted.
C3_Witness ==
    /\ pc = "idle"
    /\ drv.phase = "rels" /\ drv.c0 = 1
    /\ drv.n = MaxN /\ drv.gets = drv.n /\ drv.rels = drv.n + 1
    /\ zbrFrees[drv.z] = 1

\* The owning references to z: the container's slot and the caller's.
Owners(z) == (IF m_zbr = z THEN 1 ELSE 0) + callerRefs[z]

\* C4 as stated: between calls, with a caller that releases only references
\* it acquired and transfers only references it owns, each live Zbr's count
\* equals the number of owning references to it, a deleted Zbr has none
\* left, and no Zbr has been deleted more than once.
C4_CountsMatchOwners ==
    pc = "idle" =>
        \A z \in zbrAlloc :
            /\ ZbrLive(z) => m_refcount[z] = Owners(z)
            /\ ~ZbrLive(z) => Owners(z) = 0
            /\ zbrFrees[z] <= 1

\* C6 as stated: once set_zbr_shared(v) has returned, for v live when it was
\* called, v is live, the container holds v, and v's count is one higher
\* than the number of references the caller owns.
C6_SharedKeepsBothReferences ==
    (pc = "idle" /\ last.op = "set_zbr_shared" /\ last.arg \in last.live) =>
        /\ ZbrLive(last.arg)
        /\ m_zbr = last.arg
        /\ m_refcount[last.arg] = callerRefs[last.arg] + 1

\* The first step of a set_zbr_transfer call (lines 129-131), and its last
\* (line 132).
TransferCallStep == pc = "idle" /\ cur'.op = "set_zbr_transfer"
TransferStoreStep == pc = "set_zbr_transfer_store" /\ pc' = "idle"

\* What set_zbr_transfer does to the Zbr held and to every other Zbr: the
\* count of a live Zbr held goes down by exactly one and the Zbr is deleted
\* exactly if that count is now zero; no other count changes and nothing
\* else is deleted; the second step stores the argument and changes no count.
TransferReleasesHeld ==
    /\ TransferCallStep =>
          /\ m_zbr' = m_zbr
          /\ \A z \in ZbrIds \ {m_zbr} :
                m_refcount'[z] = m_refcount[z] /\ zbrFrees'[z] = zbrFrees[z]
          /\ (m_zbr # NULL /\ ZbrLive(m_zbr)) =>
                /\ m_refcount'[m_zbr] = m_refcount[m_zbr] - 1
                /\ zbrFrees'[m_zbr] = (IF m_refcount'[m_zbr] = 0 THEN 1 ELSE 0)
    /\ TransferStoreStep =>
          /\ m_zbr' = cur.arg
          /\ m_refcount' = m_refcount
          /\ zbrFrees' = zbrFrees

\* C7 as stated: set_zbr_transfer(v) decrements the count of the Zbr held by
\* exactly one (deleting it at zero), stores v and leaves v's count
\* unchanged (for a v that is live before and after); with no Zbr held no
\* count changes.  It fails for v the Zbr already held: its count is the
\* one decremented.
C7_AsClaimed ==
    [][/\ TransferReleasesHeld
       /\ (TransferCallStep /\ cur'.arg # NULL /\ ZbrLive(cur'.arg)
             /\ zbrFrees'[cur'.arg] = 0) =>
             m_refcount'[cur'.arg] = m_refcount[cur'.arg]]_vars

\* C7, amended: set_zbr_transfer(v) decrements the count of the Zbr held by
\* exactly one (deleting it at zero), stores v and leaves the count of v
\* unchanged unless v is the Zbr held; with no Zbr held no count changes.
C7_TransferReleasesHeldOnly ==
    [][TransferReleasesHeld]_vars

\* In the middle of set_zbr_transfer(v), after the Unref: the container
\* still holds a live Zbr other than the live v.
C7_Witness ==
    /\ pc = "set_zbr_transfer_store"
    /\ m_zbr # NULL /\ cur.arg \notin {NULL, m_zbr}
    /\ ZbrLive(m_zbr) /\ ZbrLive(cur.arg)

\* The step is a whole get_zbr call, or a whole peek_zbr call.
GetZbrStep == pc = "idle" /\ pc' = "idle" /\ last'.op = "get_zbr"
PeekZbrStep == pc = "idle" /\ pc' = "idle" /\ last'.op = "peek_zbr"

C9_CountNeverNegative ==
    \A z \in zbrAlloc : m_refcount[z] >= 0

\* The step runs Unref on z: the caller's Unref, or the Unref of the Zbr
\* held, in the first step of set_zbr_transfer or set_zbr_shared.
UnrefStepOn(z) ==
    \/ pc = "idle" /\ pc' = "idle" /\ last'.op = "Unref"
    \/ pc = "idle" /\ cur'.op \in {"set_zbr_transfer", "set_zbr_shared"} /\ m_zbr = z

\* C10: a live Zbr is deleted by a step exactly if the step takes its count
\* from 1 to 0, and such a step is an Unref on it.
C10_DestroyedAtOneToZero ==
    [][\A z \in ZbrIds :
          ZbrLive(z) =>
             /\ ~ZbrLive(z)' <=> (m_refcount[z] = 1 /\ m_refcount'[z] = 0)
             /\ ~ZbrLive(z)' => UnrefStepOn(z)]_vars

\* The caller's Unref has just deleted a Zbr, and another Zbr whose count is
\* not 1 is live.
C10_Witness ==
    /\ pc = "idle" /\ last.op = "Unref"
    /\ \E z \in zbrAlloc : zbrFrees[z] = 1 /\ m_refcount[z] = 0
    /\ \E z \in zbrAlloc : ZbrLive(z) /\ m_refcount[z] # 1

(* ----------------- claims: the borrowed pointer slot ---------------- *)

\* The step is a whole set_foo_shared_ptr / get_foo_shared_ptr call.
SetSharedStep == pc = "idle" /\ pc' = "idle" /\ last'.op = "set_foo_shared_ptr"
GetSharedStep == pc = "idle" /\ pc' = "idle" /\ last'.op = "get_foo_shared_ptr"

\* The step is the caller's delete of f.
CallerDeleteStep(f) ==
    pc = "idle" /\ cur'.op = "none" /\ last'.op = "delete_foo" /\ last'.arg = f

\* C11: set_foo_shared_ptr and get_foo_shared_ptr delete nothing;
\* set_foo_shared_ptr stores its argument in the borrowed slot and no other
\* step changes that slot, so that get_foo_shared_ptr returns the last
\* pointer passed, and leaves the slot as it is; and a live Foo is deleted
\* only by the caller's delete or by a set_foo_ptr that finds it in the
\* owned slot, where only set_foo_ptr puts an instance.
C11_BorrowedNeverFreed ==
    [][/\ (SetSharedStep \/ GetSharedStep) => fooFrees' = fooFrees
       /\ SetSharedStep => m_foo_shared_ptr' = last'.arg
       /\ GetSharedStep => last'.ret = m_foo_shared_ptr
       /\ ~SetSharedStep => m_foo_shared_ptr' = m_foo_shared_ptr
       /\ m_foo_ptr' # m_foo_ptr =>
             \/ m_foo_ptr' = NULL
             \/ pc = "set_foo_ptr_store" /\ cur.op = "set_foo_ptr" /\ m_foo_ptr' = cur.arg
       /\ \A f \in FooIds :
             (FooLive(f) /\ fooFrees'[f] > 0) =>
                \/ CallerDeleteStep(f)
                \/ SetFooPtrCallStep /\ m_foo_ptr = f]_vars

\* get_foo_shared_ptr has returned the borrowed Foo, which is live and still
\* the caller's, after the container has deleted another Foo it owned and
\* while it owns a third.
C11_Witness ==
    /\ pc = "idle" /\ ~misuse
    /\ last.op = "get_foo_shared_ptr" /\ last.ret # NULL
    /\ m_foo_shared_ptr = last.ret
    /\ FooLive(last.ret) /\ last.ret \in callerFoo
    /\ m_foo_ptr \notin {NULL, last.ret}
    /\ \E g \in fooAlloc : fooFrees[g] = 1 /\ g \notin callerFoo

(* ------------------------ claims: empty slots ----------------------- *)

\* C12: after construction the owned slot, the borrowed slot and the Zbr
\* slot are null; and whenever a slot is null, get_foo_shared_ptr,
\* get_foo_ptr, get_zbr and peek_zbr on it return null, and get_zbr changes
\* no count and deletes nothing.
C12_EmptySlotsReturnAbsent ==
    /\ m_foo_shared_ptr = NULL /\ m_foo_ptr = NULL /\ m_zbr = NULL
    /\ [][/\ (GetSharedStep /\ m_foo_shared_ptr = NULL) => last'.ret = NULL
          /\ (GetFooPtrStep /\ m_foo_ptr = NULL) => last'.ret = NULL
          /\ (GetZbrStep /\ m_zbr = NULL) =>
                /\ last'.ret = NULL
                /\ m_refcount' = m_refcount
                /\ zbrFrees' = zbrFrees /\ fooFrees' = fooFrees
          /\ (PeekZbrStep /\ m_zbr = NULL) => last'.ret = NULL]_vars

\* get_zbr has returned null on a Zbr slot that held the Zbr before and was
\* emptied, while the Zbr is live and the Foo slots are not empty.
C12_Witness ==
    /\ pc = "idle" /\ last.op = "get_zbr" /\ last.ret = NULL
    /\ m_zbr = NULL
    /\ \E z \in zbrAlloc : callerRefs[z] = 0 /\ ZbrLive(z)
    /\ m_foo_ptr # NULL /\ m_foo_shared_ptr # NULL

(* ------------------ claims: value slot and prefix ------------------- *)

SetValueOps == {"set_foo_value", "set_foo_by_ref"}
GetValueOps == {"get_foo_value", "get_foo_by_ref"}

\* The step is a whole set_foo_value / set_foo_by_ref call on the caller's
\* variable i, or a whole get_foo_value / get_foo_by_ref call into it.
SetValueStep(i) ==
    pc = "idle" /\ pc' = "idle" /\ last'.op \in SetValueOps /\ last'.arg = i
GetValueStep(i) ==
    pc = "idle" /\ pc' = "idle" /\ last'.op \in GetValueOps /\ last'.arg = i

\* C13: set_foo_value(h) and set_foo_by_ref(h) leave in the value slot a Foo
\* with h's datum and change none of the caller's Foo objects (h, and the
\* copies returned earlier); get_foo_value and get_foo_by_ref give the
\* caller a Foo with the datum of the value slot, change none of its other
\* Foo objects and leave the value slot as it is; so a get called right
\* after a set of h yields h's datum.
C13_ValueRoundTrip ==
    [][\A i \in Locals :
          /\ SetValueStep(i) =>
                /\ get_datum(m_foo_value') = get_datum(local[i])
                /\ local' = local
          /\ GetValueStep(i) =>
                /\ get_datum(local'[i]) = get_datum(m_foo_value)
                /\ \A j \in Locals \ {i} : local'[j] = local[j]
                /\ m_foo_value' = m_foo_value
                /\ last.op \in SetValueOps =>
                      get_datum(local'[i]) = get_datum(local[last.arg])]_vars

\* get_foo_by_ref has given the caller a copy of the value slot, set from a
\* Foo h whose datum was not empty; the caller has since given h another
\* datum, and the copy and the value slot still have the first one.
C13_Witness ==
    /\ pc = "idle" /\ last.op = "get_foo_by_ref" /\ last.arg = 2
    /\ get_datum(local[2]) # EmptyString
    /\ get_datum(m_foo_value) = get_datum(local[2])
    /\ get_datum(local[1]) \notin {EmptyString, get_datum(local[2])}

\* The step is a whole add_prefix call.
AddPrefixStep == pc = "idle" /\ pc' = "idle" /\ last'.op = "add_prefix"

\* C14: add_prefix leaves in the caller's message the prefix followed by
\* the message as it was, returns the sum of their lengths, and leaves the
\* prefix as it is; with prefix foo_ and message bar the message becomes
\* foo_bar and 7 is returned.
C14_AddPrefixPrepends ==
    [][AddPrefixStep =>
          /\ Len(message') = Len(m_prefix) + Len(message)
          /\ \A k \in 1..Len(m_prefix) : message'[k] = m_prefix[k]
          /\ \A k \in 1..Len(message) : message'[Len(m_prefix) + k] = message[k]
          /\ last'.ret = Len(m_prefix) + Len(message)
          /\ m_prefix' = m_prefix
          /\ (m_prefix = Str_foo_ /\ message = Str_bar) =>
                /\ message' = <<"f", "o", "o", "_", "b", "a", "r">>
                /\ last'.ret = 7]_vars

\* add_prefix has been called twice on the message bar with the prefix
\* foo_: the message is foo_foo_bar and 11 was returned.
C14_Witness ==
    /\ pc = "idle" /\ last.op = "add_prefix" /\ last.ret = 11
    /\ m_prefix = Str_foo_
    /\ message = Str_foo_ \o Str_foo_ \o Str_bar

(* --------------------------- claims: frame -------------------------- *)

\* The step is one of a set_foo_ptr, set_zbr_transfer or set_zbr_shared call.
SetFooPtrStep == SetFooPtrCallStep \/ pc = "set_foo_ptr_store"
SetZbrStep ==
    \/ pc = "idle" /\ cur'.op \in {"set_zbr_transfer", "set_zbr_shared"}
    \/ pc \in {"set_zbr_transfer_store", "set_zbr_shared_ref", "set_zbr_shared_store"}

\* The step is a whole call of one of the queries.
QueryStep ==
    \/ \E i \in Locals : GetValueStep(i)
    \/ GetSharedStep
    \/ PeekZbrStep

SetOfHeld(c) ==
    c.op = "set_foo_ptr" /\ c.arg # NULL /\ c.arg = c.held /\ c.arg \in c.live

\* A second delete of x is run by the step: the process aborts or goes on
\* with x deleted more than once.
SecondDelete(x) ==
    /\ fooFrees[x] > 0
    /\ pc' = "aborted" \/ fooFrees'[x] = 2

\* C16: set_foo_ptr deletes the instance held whenever the owned slot is
\* not null, whatever the argument; so set_foo_ptr(x) called while the slot
\* holds live x deletes x and then stores x, the slot refers to a deleted
\* instance, and a second delete of x is run by the next set_foo_ptr, and
\* by the caller's delete of the pointer that get_foo_ptr returns.
C16_SetOfHeldFreesIt ==
    [][/\ (SetFooPtrCallStep /\ m_foo_ptr # NULL) =>
             /\ FooLive(m_foo_ptr) =>
                   fooFrees'[m_foo_ptr] = 1 /\ pc' = "set_foo_ptr_store"
             /\ ~FooLive(m_foo_ptr) => SecondDelete(m_foo_ptr)
       /\ (pc = "set_foo_ptr_store" /\ SetOfHeld(cur)) =>
             /\ pc' = "idle"
             /\ m_foo_ptr' = cur.arg
             /\ fooFrees'[cur.arg] = 1
       /\ (SetOfHeld(last) /\ SetFooPtrCallStep) =>
             /\ m_foo_ptr = last.arg
             /\ SecondDelete(last.arg)
       /\ (SetOfHeld(last) /\ GetFooPtrStep) => last'.ret = last.arg
       /\ \A x \in FooIds :
             (/\ last.op = "get_foo_ptr" /\ last.ret = x /\ x \notin last.live
              /\ CallerDeleteStep(x)) => SecondDelete(x)]_vars

\* set_foo_ptr(x) has returned, called while the owned slot held live x: the
\* slot holds x, deleted once.
C16_Witness ==
    /\ pc = "idle" /\ SetOfHeld(last)
    /\ m_foo_ptr = last.arg
    /\ fooFrees[m_foo_ptr] = 1

(* ------------------- claims: emptying the Zbr slot ------------------ *)

\* C17: set_zbr_transfer(NULL) takes the count of a live Zbr held down by
\* one, deletes it exactly if the count is then zero, and leaves the slot
\* null; the slot becomes null in no other way; on a null slot get_zbr and
\* peek_zbr return null and change no count; and a step of a SomeObject
\* method changes the count of no Zbr but the one in the slot or the
\* argument of set_zbr_shared, so not that of a Zbr released.
C17_TransferOfNullEmptiesSlot ==
    [][/\ (TransferCallStep /\ cur'.arg = NULL) =>
             /\ (m_zbr # NULL /\ ZbrLive(m_zbr)) =>
                   /\ m_refcount'[m_zbr] = m_refcount[m_zbr] - 1
                   /\ zbrFrees'[m_zbr] = (IF m_refcount'[m_zbr] = 0 THEN 1 ELSE 0)
             /\ m_zbr = NULL => (m_refcount' = m_refcount /\ zbrFrees' = zbrFrees)
       /\ (TransferStoreStep /\ cur.arg = NULL) => m_zbr' = NULL
       /\ (m_zbr # NULL /\ m_zbr' = NULL) =>
             (TransferStoreStep /\ cur.op = "set_zbr_transfer" /\ cur.arg = NULL)
       /\ ((GetZbrStep \/ PeekZbrStep) /\ m_zbr = NULL) =>
             (last'.ret = NULL /\ m_refcount' = m_refcount)
       /\ \A z \in zbrAlloc :
             (/\ m_refcount'[z] # m_refcount[z]
              /\ GetZbrStep \/ PeekZbrStep \/ SetZbrStep) =>
                \/ z = m_zbr
                \/ pc = "set_zbr_shared_ref" /\ z = cur.arg]_vars

\* set_zbr_transfer(NULL) has returned: the slot is null, the Zbr it held
\* is deleted with count zero, and another Zbr is live.
C17_Witness ==
    /\ pc = "idle" /\ last.op = "set_zbr_transfer" /\ last.arg = NULL
    /\ m_zbr = NULL
    /\ \E z \in zbrAlloc :
          zbrFrees[z] = 1 /\ m_refcount[z] = 0 /\ callerRefs[z] = 0
    /\ \E z \in zbrAlloc : ZbrLive(z)

=============================================================================
